---- MODULE Spec2Model ----
(***************************************************************************)
(* Model of src/main.py: the bearer-token login flow of the quickapi       *)
(* server (POST /token, GET /users/me, GET /users/me/items).               *)
(*                                                                         *)
(* Time is counted in ticks, TicksPerSecond ticks to a second, because     *)
(* datetime.now() has sub-second resolution while the "exp" claim of a     *)
(* token is a whole number of seconds.  A token is modelled as its claims  *)
(* payload together with the key that signed it; an optional value         *)
(* (Python's None or a value) is a sequence of length 0 or 1.              *)
(***************************************************************************)
EXTENDS Integers, Sequences, FiniteSets, TLC

\* ---------------------------------------------------------------- bounds
TicksPerSecond == 2
MaxStart == 1
MaxIssued == 2

\* ------------------------------------------------------ program constants
SECRET_KEY == "4190fc2a5ca3c5813532f5c06a349fff6d3a46290fc55b9809f4ef9b007b5487"
ACCESS_TOKEN_EXPIRE_MINUTES == 30
DEFAULT_EXPIRE_MINUTES == 15
HTTP_200_OK == 200
HTTP_400_BAD_REQUEST == 400
HTTP_401_UNAUTHORIZED == 401

\* timedelta(minutes=m), in ticks
timedelta(minutes) == minutes * 60 * TicksPerSecond

\* -------------------------------------------------------------- the table
\* password_hash.hash: the stored hash of a password
hash_password(password) == <<"$argon2id", password>>

\* password_hash.verify
verify_password(plain_password, hashed_password) ==
    hashed_password = hash_password(plain_password)

\* The table of the source: one user, not disabled.
SourceTable ==
    [u \in {"johndoe"} |->
        [username |-> "johndoe", full_name |-> "John Doe",
         email |-> "johndoe@example.com",
         hashed_password |-> hash_password("secret"),
         disabled |-> "False"]]

\* The same table with two more entries, so that the handlers' branches on
\* the disabled flag (True, and absent = None) are exercised.
ExtendedTable ==
    [u \in {"johndoe", "alice", "bob"} |->
        CASE u = "johndoe" -> SourceTable["johndoe"]
          [] u = "alice" ->
               [username |-> "alice", full_name |-> "Alice",
                email |-> "alice@example.com",
                hashed_password |-> hash_password("wonderland"),
                disabled |-> "True"]
          [] u = "bob" ->
               [username |-> "bob", full_name |-> "Bob",
                email |-> "bob@example.com",
                hashed_password |-> hash_password("secret"),
                disabled |-> "None"]]

UserTables == {SourceTable, ExtendedTable}

\* Inputs of the requests.
FormUsernames == {"johndoe", "alice", "bob", "mallory"}
FormPasswords == {"secret", "wonderland"}

TTL == timedelta(ACCESS_TOKEN_EXPIRE_MINUTES)

\* The instants at which the clock is observed: a few right after the
\* start, and a window around the expiry of the tokens issued then.
Instants == (0 .. MaxStart) \cup ((TTL - 1) .. (TTL + MaxStart))

VARIABLES
    fake_users_db,  \* the static user table
    now,            \* datetime.now(timezone.utc), in ticks
    issued,         \* tokens the clients received: [token, at, username]
    resp,           \* the last request and its response
    call            \* the last direct call of create_access_token

vars == <<fake_users_db, now, issued, resp, call>>

\* ------------------------------------------------------------ the library
\* jwt.encode: a datetime "exp" becomes whole seconds
\* (timegm(utctimetuple()) drops the fraction); the payload is signed.
jwt_encode(payload, key) ==
    [payload |-> [k \in DOMAIN payload |->
                     IF k = "exp" THEN payload[k] \div TicksPerSecond
                     ELSE payload[k]],
     key |-> key]

\* jwt.decode with the check of the expiry left out (verify_exp off)
jwt_decode_no_expiry(token, key) ==
    IF token.key # key THEN <<>> ELSE <<token.payload>>

\* jwt.decode: InvalidSignatureError when the key differs,
\* ExpiredSignatureError when exp <= now; otherwise the payload.
jwt_decode(token, key) ==
    IF token.key # key THEN <<>>
    ELSE IF "exp" \in DOMAIN token.payload
            /\ token.payload["exp"] * TicksPerSecond <= now THEN <<>>
    ELSE <<token.payload>>

\* ---------------------------------------------------------- the functions
\* get_user falling back to the first entry instead of returning None
get_user_default(db, username) ==
    IF username \notin DOMAIN db THEN <<db["johndoe"]>> ELSE <<db[username]>>

get_user(db, username) ==
    IF username \notin DOMAIN db THEN <<>> ELSE <<db[username]>>

\* authenticate_user without the check of the password
authenticate_user_no_verify(fake_db, username, password) ==
    get_user(fake_db, username)

authenticate_user(fake_db, username, password) ==
    LET user == get_user(fake_db, username) IN
    IF user = <<>> THEN <<>>
    ELSE IF ~verify_password(password, user[1].hashed_password) THEN <<>>
    ELSE user

\* create_access_token ignoring the expires_delta it is given
create_access_token_locals_default(data, expires_delta) ==
    LET expire == now + timedelta(DEFAULT_EXPIRE_MINUTES)
    IN [data |-> data,
        expire |-> expire,
        to_encode |-> [k \in DOMAIN data \cup {"exp"} |->
                          IF k = "exp" THEN expire ELSE data[k]]]

\* The locals of create_access_token when it returns: the caller's
\* dictionary, the copy with "exp" added, and the expiry chosen.
create_access_token_locals(data, expires_delta) ==
    LET expire == IF expires_delta # <<>> /\ expires_delta[1] # 0
                  THEN now + expires_delta[1]
                  ELSE now + timedelta(DEFAULT_EXPIRE_MINUTES)
    IN [data |-> data,
        expire |-> expire,
        to_encode |-> [k \in DOMAIN data \cup {"exp"} |->
                          IF k = "exp" THEN expire ELSE data[k]]]

\* create_access_token encoding data instead of to_encode
create_access_token_no_exp(data, expires_delta) ==
    jwt_encode(data, SECRET_KEY)

create_access_token(data, expires_delta) ==
    jwt_encode(create_access_token_locals(data, expires_delta).to_encode,
               SECRET_KEY)

\* A dependency either returns a user or raises an HTTPException.
Raise(status_code, detail) ==
    [user |-> <<>>, status |-> status_code, detail |-> detail]

Return(user) ==
    [user |-> <<user>>, status |-> HTTP_200_OK, detail |-> ""]

\* get_current_user keeping a session: only the newest token of a user
get_current_user_latest(token) ==
    LET credentials_exception ==
            Raise(HTTP_401_UNAUTHORIZED, "Could not validate credentials")
        payload == jwt_decode(token, SECRET_KEY)
    IN IF payload = <<>> THEN credentials_exception
       ELSE IF "sub" \notin DOMAIN payload[1] THEN credentials_exception
       ELSE IF \E r \in issued :
                  /\ r.username = payload[1]["sub"]
                  /\ "exp" \in DOMAIN payload[1]
                  /\ r.token.payload["exp"] > payload[1]["exp"]
            THEN credentials_exception
       ELSE LET user == get_user(fake_users_db, payload[1]["sub"]) IN
            IF user = <<>> THEN credentials_exception
            ELSE Return(user[1])

get_current_user(token) ==
    LET credentials_exception ==
            Raise(HTTP_401_UNAUTHORIZED, "Could not validate credentials")
        payload == jwt_decode(token, SECRET_KEY)
    IN IF payload = <<>> THEN credentials_exception
       ELSE IF "sub" \notin DOMAIN payload[1] THEN credentials_exception
       ELSE LET user == get_user(fake_users_db, payload[1]["sub"]) IN
            IF user = <<>> THEN credentials_exception
            ELSE Return(user[1])

\* get_current_active_user taking every flag but False for disabled
get_current_active_user_not_false(token) ==
    LET current_user == get_current_user(token) IN
    IF current_user.user = <<>> THEN current_user
    ELSE IF current_user.user[1].disabled # "False"
         THEN Raise(HTTP_400_BAD_REQUEST, "Inactive user")
    ELSE current_user

get_current_active_user(token) ==
    LET current_user == get_current_user(token) IN
    IF current_user.user = <<>> THEN current_user
    ELSE IF current_user.user[1].disabled = "True"
         THEN Raise(HTTP_400_BAD_REQUEST, "Inactive user")
    ELSE current_user

\* response_model=User: the fields of User, without hashed_password
User(user) ==
    [username |-> user.username, email |-> user.email,
     full_name |-> user.full_name, disabled |-> user.disabled]

\* ------------------------------------------------------------ the requests
NoResponse ==
    [route |-> "", username |-> "", password |-> "", token |-> <<>>,
     at |-> 0, status |-> 0, detail |-> "", body |-> <<>>]

NoCall == [done |-> FALSE, data |-> <<>>, expires_delta |-> <<>>, at |-> 0,
           locals |-> <<>>, encoded_jwt |-> <<>>]

\* login disabling the account after a failed attempt
login_lockout(username, password) ==
    LET user == authenticate_user(fake_users_db, username, password)
        request == [NoResponse EXCEPT !.route = "POST /token",
                       !.username = username, !.password = password,
                       !.at = now]
    IN IF user = <<>>
       THEN /\ resp' = [request EXCEPT !.status = HTTP_401_UNAUTHORIZED,
                           !.detail = "Incorrect username or password"]
            /\ fake_users_db' =
                  IF username \in DOMAIN fake_users_db
                  THEN [fake_users_db EXCEPT ![username].disabled = "True"]
                  ELSE fake_users_db
            /\ UNCHANGED <<now, issued, call>>
       ELSE LET access_token_expires ==
                    timedelta(ACCESS_TOKEN_EXPIRE_MINUTES)
                access_token ==
                    create_access_token([sub |-> user[1].username],
                                        <<access_token_expires>>)
                received == [token |-> access_token, at |-> now,
                             username |-> username]
            IN /\ Cardinality(issued \cup {received}) <= MaxIssued
               /\ resp' = [request EXCEPT !.status = HTTP_200_OK,
                              !.body = <<[access_token |-> access_token,
                                          token_type |-> "bearer"]>>]
               /\ issued' = issued \cup {received}
               /\ UNCHANGED <<fake_users_db, now, call>>

\* login putting the display name into the subject claim
login_full_name(username, password) ==
    LET user == authenticate_user(fake_users_db, username, password)
        request == [NoResponse EXCEPT !.route = "POST /token",
                       !.username = username, !.password = password,
                       !.at = now]
    IN IF user = <<>>
       THEN /\ resp' = [request EXCEPT !.status = HTTP_401_UNAUTHORIZED,
                           !.detail = "Incorrect username or password"]
            /\ UNCHANGED <<fake_users_db, now, issued, call>>
       ELSE LET access_token_expires ==
                    timedelta(ACCESS_TOKEN_EXPIRE_MINUTES)
                access_token ==
                    create_access_token([sub |-> user[1].full_name],
                                        <<access_token_expires>>)
                received == [token |-> access_token, at |-> now,
                             username |-> username]
            IN /\ Cardinality(issued \cup {received}) <= MaxIssued
               /\ resp' = [request EXCEPT !.status = HTTP_200_OK,
                              !.body = <<[access_token |-> access_token,
                                          token_type |-> "bearer"]>>]
               /\ issued' = issued \cup {received}
               /\ UNCHANGED <<fake_users_db, now, call>>

\* POST /token
login(username, password) ==
    LET user == authenticate_user(fake_users_db, username, password)
        request == [NoResponse EXCEPT !.route = "POST /token",
                       !.username = username, !.password = password,
                       !.at = now]
    IN IF user = <<>>
       THEN /\ resp' = [request EXCEPT !.status = HTTP_401_UNAUTHORIZED,
                           !.detail = "Incorrect username or password"]
            /\ UNCHANGED <<fake_users_db, now, issued, call>>
       ELSE LET access_token_expires ==
                    timedelta(ACCESS_TOKEN_EXPIRE_MINUTES)
                access_token ==
                    create_access_token([sub |-> user[1].username],
                                        <<access_token_expires>>)
                received == [token |-> access_token, at |-> now,
                             username |-> username]
            IN /\ Cardinality(issued \cup {received}) <= MaxIssued
               /\ resp' = [request EXCEPT !.status = HTTP_200_OK,
                              !.body = <<[access_token |-> access_token,
                                          token_type |-> "bearer"]>>]
               /\ issued' = issued \cup {received}
               /\ UNCHANGED <<fake_users_db, now, call>>

\* GET /users/me
read_users_me(token) ==
    LET current_user == get_current_active_user(token)
        request == [NoResponse EXCEPT !.route = "GET /users/me",
                       !.token = <<token>>, !.at = now]
    IN /\ resp' = IF current_user.user = <<>>
                  THEN [request EXCEPT !.status = current_user.status,
                           !.detail = current_user.detail]
                  ELSE [request EXCEPT !.status = HTTP_200_OK,
                           !.body = <<User(current_user.user[1])>>]
       /\ UNCHANGED <<fake_users_db, now, issued, call>>

\* GET /users/me/items
read_own_items(token) ==
    LET current_user == get_current_active_user(token)
        request == [NoResponse EXCEPT !.route = "GET /users/me/items",
                       !.token = <<token>>, !.at = now]
    IN /\ resp' = IF current_user.user = <<>>
                  THEN [request EXCEPT !.status = current_user.status,
                           !.detail = current_user.detail]
                  ELSE [request EXCEPT !.status = HTTP_200_OK,
                           !.body = <<[item_id |-> "Foo",
                                       owner |->
                                         current_user.user[1].username]>>]
       /\ UNCHANGED <<fake_users_db, now, issued, call>>

\* The clock moves on to a later instant.
Advance ==
    /\ \E t \in Instants : t > now /\ now' = t
    /\ UNCHANGED <<fake_users_db, issued, resp, call>>

\* Tokens a client may present that the server did not issue: expired,
\* with an unknown subject, without subject, without expiry, and signed
\* with another key.
FarExpiry == 2 * 60 * ACCESS_TOKEN_EXPIRE_MINUTES

ForgedTokens ==
    { [payload |-> [sub |-> "johndoe", exp |-> 1], key |-> SECRET_KEY],
      [payload |-> [sub |-> "alice", exp |-> 1], key |-> SECRET_KEY],
      [payload |-> [sub |-> "mallory", exp |-> FarExpiry],
       key |-> SECRET_KEY],
      [payload |-> [exp |-> FarExpiry], key |-> SECRET_KEY],
      [payload |-> [sub |-> "johndoe"], key |-> SECRET_KEY],
      [payload |-> [sub |-> "alice", exp |-> FarExpiry],
       key |-> "forged-key"] }

PresentedTokens == {r.token : r \in issued} \cup ForgedTokens

Init ==
    /\ fake_users_db \in UserTables
    /\ now = 0
    /\ issued = {}
    /\ resp = NoResponse
    /\ call = NoCall

Login == \E username \in FormUsernames, password \in FormPasswords :
            login(username, password)

ReadUsersMe == \E token \in PresentedTokens : read_users_me(token)

ReadOwnItems == \E token \in PresentedTokens : read_own_items(token)

Next == Login \/ ReadUsersMe \/ ReadOwnItems \/ Advance

Spec == Init /\ [][Next]_vars

\* ------------------------------------------- create_access_token, directly
DataChoices == {[sub |-> "johndoe"], [sub |-> "alice", exp |-> 7],
                [scope |-> "me"]}

DeltaChoices == {<<>>, <<0>>, <<1>>, <<3>>,
                 <<timedelta(ACCESS_TOKEN_EXPIRE_MINUTES)>>}

CreateAccessToken ==
    /\ \E data \in DataChoices, expires_delta \in DeltaChoices :
         call' = [done |-> TRUE, data |-> <<data>>,
                  expires_delta |-> expires_delta, at |-> now,
                  locals |-> <<create_access_token_locals(data,
                                                          expires_delta)>>,
                  encoded_jwt |-> <<create_access_token(data,
                                                        expires_delta)>>]
    /\ UNCHANGED <<fake_users_db, now, issued, resp>>

NextCreate == CreateAccessToken \/ Advance

SpecCreate == Init /\ [][NextCreate]_vars

\* ------------------------------------------------------------- properties
IsLogin == resp.route = "POST /token"
IsRead == resp.route \in {"GET /users/me", "GET /users/me/items"}

\* The four conditions on the token presented by the last request, stated
\* on the token, the time of the request and the table.
SignatureVerifies == resp.token[1].key = SECRET_KEY
NotExpired ==
    "exp" \in DOMAIN resp.token[1].payload
        => resp.at < resp.token[1].payload["exp"] * TicksPerSecond
HasSubject == "sub" \in DOMAIN resp.token[1].payload
SubjectKnown ==
    /\ HasSubject
    /\ resp.token[1].payload["sub"] \in DOMAIN fake_users_db
TokenValid ==
    SignatureVerifies /\ NotExpired /\ HasSubject /\ SubjectKnown

\* The records of the clients for the token of the last request.
IssuedRecords == {r \in issued : resp.token = <<r.token>> /\ r.at <= resp.at}

GoodCredentials ==
    /\ resp.username \in DOMAIN fake_users_db
    /\ fake_users_db[resp.username].hashed_password
           = hash_password(resp.password)

\* C1: POST /token answers with a bearer token if and only if the username
\* is a key of the user table and the password matches that user's stored
\* hash, whatever the disabled flag; otherwise it answers 401 with no token.
C1_LoginIffCredentials ==
    IsLogin =>
        /\ GoodCredentials =>
              /\ resp.status = HTTP_200_OK
              /\ Len(resp.body) = 1
              /\ resp.body[1].token_type = "bearer"
        /\ ~GoodCredentials =>
              /\ resp.status = HTTP_401_UNAUTHORIZED
              /\ resp.body = <<>>

\* C1 witness: a disabled user logged in and received a token.
C1_Witness ==
    /\ IsLogin
    /\ resp.status = HTTP_200_OK
    /\ fake_users_db[resp.username].disabled = "True"

\* C2: a read request resolves its token to a user only when the signature
\* verifies, the token is not expired, it has a subject and the subject is
\* a key of the table; when one of these fails the answer is 401 "Could not
\* validate credentials" with no user.
C2_ResolvesOnlyValidTokens ==
    IsRead =>
        /\ resp.status # HTTP_401_UNAUTHORIZED => TokenValid
        /\ ~TokenValid =>
              /\ resp.status = HTTP_401_UNAUTHORIZED
              /\ resp.detail = "Could not validate credentials"
              /\ resp.body = <<>>

\* C2 witness: a token the server itself issued was rejected only because
\* it had expired.
C2_Witness ==
    /\ IsRead
    /\ IssuedRecords # {}
    /\ ~NotExpired
    /\ resp.status = HTTP_401_UNAUTHORIZED

\* C3: a read request is answered 400 "Inactive user" exactly when its
\* token is valid and the disabled flag of the resolved user is true.
C3_InactiveIffValidAndDisabled ==
    IsRead =>
        ((resp.status = HTTP_400_BAD_REQUEST /\ resp.detail = "Inactive user")
            <=> (/\ TokenValid
                 /\ fake_users_db[resp.token[1].payload["sub"]].disabled
                        = "True"))
        /\ (resp.status = HTTP_400_BAD_REQUEST <=> resp.detail = "Inactive user")

\* C3 witness: a disabled user presented the token of their own login and
\* was answered 400.
C3_Witness ==
    /\ IsRead
    /\ IssuedRecords # {}
    /\ resp.status = HTTP_400_BAD_REQUEST

MissingKey ==
    \/ IsLogin /\ resp.username \notin DOMAIN fake_users_db
    \/ IsRead /\ HasSubject /\ ~SubjectKnown

\* C4 as stated: a request whose lookup key is missing from the user table
\* is answered 404.
C4_MissingKeyIs404 == MissingKey => resp.status = 404

\* C4: a request whose lookup key is missing from the user table (a login
\* with an unknown username, a token with an unknown subject) is answered
\* 401, and no request is answered 404.
C4_MissingKeyIs401 ==
    /\ MissingKey => resp.status = HTTP_401_UNAUTHORIZED
    /\ resp.status # 404

\* C4 witness: a correctly signed, unexpired token whose subject is not in
\* the table was answered 401.
C4_Witness ==
    /\ IsRead
    /\ SignatureVerifies /\ NotExpired /\ HasSubject /\ ~SubjectKnown
    /\ resp.status = HTTP_401_UNAUTHORIZED

\* C5: no request, successful or failed, changes the user table.
C5_TableUnchanged == [][fake_users_db' = fake_users_db]_vars

\* C5 witness: tokens were issued and a read request with one of them was
\* rejected as inactive, with the table as it was at the start.
C5_Witness ==
    /\ fake_users_db = ExtendedTable
    /\ Cardinality(issued) = MaxIssued
    /\ IsRead
    /\ resp.status = HTTP_400_BAD_REQUEST

IssuedPayload == resp.body[1].access_token.payload

\* C6 as stated: the token of a successful login has exactly the claims sub
\* and exp, sub the username, exp the time of issue plus 30 minutes, and
\* the token type is bearer.
C6_ExpiryIsIssuePlus30 ==
    (IsLogin /\ resp.status = HTTP_200_OK) =>
        /\ DOMAIN IssuedPayload = {"sub", "exp"}
        /\ IssuedPayload["sub"] = resp.username
        /\ IssuedPayload["exp"] * TicksPerSecond
               = resp.at + timedelta(ACCESS_TOKEN_EXPIRE_MINUTES)
        /\ resp.body[1].token_type = "bearer"

\* C6: the token of a successful login has exactly the claims sub and exp,
\* sub the username, exp the time of issue plus 30 minutes truncated to a
\* whole second, it is signed with the server's key, and the token type is
\* bearer.
C6_ExpiryIsIssuePlus30Truncated ==
    (IsLogin /\ resp.status = HTTP_200_OK) =>
        /\ DOMAIN IssuedPayload = {"sub", "exp"}
        /\ IssuedPayload["sub"] = resp.username
        /\ IssuedPayload["exp"] * TicksPerSecond
               <= resp.at + timedelta(ACCESS_TOKEN_EXPIRE_MINUTES)
        /\ resp.at + timedelta(ACCESS_TOKEN_EXPIRE_MINUTES)
               < (IssuedPayload["exp"] + 1) * TicksPerSecond
        /\ resp.body[1].access_token.key = SECRET_KEY
        /\ resp.body[1].token_type = "bearer"

\* C6 witness: a token was issued at an instant that is not a whole second.
C6_Witness ==
    /\ IsLogin
    /\ resp.status = HTTP_200_OK
    /\ resp.at % TicksPerSecond # 0

\* C7: acceptance of a token does not depend on earlier requests: a token
\* the server issued is accepted (not answered 401) as long as it has not
\* expired, whatever other tokens were issued for the same user since.
C7_NoRevocation ==
    (IsRead /\ IssuedRecords # {} /\ NotExpired)
        => resp.status # HTTP_401_UNAUTHORIZED

\* C7 witness: a token was accepted after a later login of the same user
\* had produced another token with a later expiry.
C7_Witness ==
    /\ IsRead
    /\ resp.status = HTTP_200_OK
    /\ \E r \in IssuedRecords : \E later \in issued :
          /\ later.username = r.username
          /\ later.at > r.at
          /\ later.at <= resp.at
          /\ later.token.payload["exp"] > r.token.payload["exp"]

\* The records of tokens issued to users that are not disabled.
ActiveRecords ==
    {r \in IssuedRecords : fake_users_db[r.username].disabled # "True"}

\* C8 as stated: a token issued at time t to a user that is not disabled is
\* accepted by GET /users/me at every time before t + 30 minutes and
\* answered 401 from t + 30 minutes on.
C8_AcceptedUntilIssuePlus30 ==
    resp.route = "GET /users/me" =>
        \A r \in ActiveRecords :
            /\ resp.at < r.at + timedelta(ACCESS_TOKEN_EXPIRE_MINUTES)
                  => resp.status = HTTP_200_OK
            /\ resp.at >= r.at + timedelta(ACCESS_TOKEN_EXPIRE_MINUTES)
                  => resp.status = HTTP_401_UNAUTHORIZED

\* t + 30 minutes truncated to a whole second, in ticks
ExpiryInstant(t) ==
    ((t + timedelta(ACCESS_TOKEN_EXPIRE_MINUTES)) \div TicksPerSecond)
        * TicksPerSecond

C8_AcceptedUntilTruncatedExpiry ==
    resp.route = "GET /users/me" =>
        \A r \in ActiveRecords :
            /\ resp.at < ExpiryInstant(r.at) => resp.status = HTTP_200_OK
            /\ resp.at >= ExpiryInstant(r.at)
                  => resp.status = HTTP_401_UNAUTHORIZED

\* C8: a token issued at time t to a user that is not disabled is accepted
\* by GET /users/me at every time before t + 30 minutes truncated to a
\* whole second and answered 401 from that instant on; time only advances,
\* so a token rejected as expired is never accepted again.
C8_ExpiryWindow ==
    /\ []C8_AcceptedUntilTruncatedExpiry
    /\ [][now' >= now]_vars

\* C8 witness: a token issued between two whole seconds was rejected at an
\* instant before its time of issue plus 30 minutes.
C8_Witness ==
    /\ resp.route = "GET /users/me"
    /\ resp.status = HTTP_401_UNAUTHORIZED
    /\ \E r \in ActiveRecords :
          resp.at < r.at + timedelta(ACCESS_TOKEN_EXPIRE_MINUTES)

\* C9: the unexpired token of a login as a user u that is not disabled
\* gives u's own record at GET /users/me and one item owned by u at
\* GET /users/me/items; a token issued to u resolves to no other user.
C9_RoundTrip ==
    IsRead =>
        \A r \in IssuedRecords :
            /\ (fake_users_db[r.username].disabled # "True" /\ NotExpired)
                  => resp.status = HTTP_200_OK
            /\ (resp.status = HTTP_200_OK /\ resp.route = "GET /users/me")
                  => /\ resp.body = <<User(fake_users_db[r.username])>>
                     /\ resp.body[1].username = r.username
            /\ (resp.status = HTTP_200_OK
                    /\ resp.route = "GET /users/me/items")
                  => resp.body = <<[item_id |-> "Foo", owner |-> r.username]>>

\* C9 witness: GET /users/me/items answered with the item of the user who
\* logged in, in a table with several users.
C9_Witness ==
    /\ resp.route = "GET /users/me/items"
    /\ resp.status = HTTP_200_OK
    /\ fake_users_db = ExtendedTable
    /\ \E r \in IssuedRecords : resp.body[1].owner = r.username

\* C10: create_access_token sets the expiry to the current time plus
\* expires_delta for every expires_delta supplied, a zero delta included,
\* and to the current time plus 15 minutes only when none is supplied; the
\* caller's dictionary is left as it was.
C10_ExpiryFromDelta ==
    call.done =>
        /\ call.expires_delta # <<>>
              => call.locals[1].to_encode["exp"]
                     = call.at + call.expires_delta[1]
        /\ call.expires_delta = <<>>
              => call.locals[1].to_encode["exp"]
                     = call.at + timedelta(DEFAULT_EXPIRE_MINUTES)
        /\ call.locals[1].data = call.data[1]

====
